---- MODULE Spec2Model ----
(***************************************************************************)
(* Model of src/src/pty.rs: exec (session launcher), handle_child,         *)
(* handle_parent (exit reconciliation), copy (the event pump) and the two  *)
(* buffer helpers read_all / write_all.                                    *)
(*                                                                         *)
(* The parent process is a sequential program whose position is pc.  The   *)
(* forked child is a second process (childPc).  The kernel side of the     *)
(* two descriptors (bytes queued for reading, hang-up state, bytes the     *)
(* peer accepted) and the readiness poller are the environment.            *)
(*                                                                         *)
(* Bytes of each stream are numbered 1, 2, 3, ... so that a lost, doubled  *)
(* or reordered byte is visible; the code never inspects a byte's value.   *)
(***************************************************************************)
EXTENDS Integers, Sequences, FiniteSets, TLC

\* ---------------------------------------------------------------- bounds
MaxOut == 2        \* bytes the child writes to its terminal
MaxIn == 2         \* bytes typed on the controlling terminal
MaxArgs == 2       \* length of the argument vector
MaxFaults == 1     \* injected OS failures (calls that fail for no modelled reason)
BUF_SIZE == 2      \* pty.rs:74 is 128 * 1024; scaled down so that one read can be short

\* --------------------------------------------------------- small helpers
Min(a, b) == IF a < b THEN a ELSE b

Stream(n) == [i \in 1..n |-> i]

IsPrefix(s, t) == Len(s) <= Len(t) /\ SubSeq(t, 1, Len(s)) = s

\* An argument is a string of bytes; 0 is the NUL byte.
ArgStrings == {<<1>>, <<1, 0>>}

ArgVectors == UNION {[1..n -> ArgStrings] : n \in 1..MaxArgs}

\* CString::new(s) fails with NulError iff s has an interior 0 byte (pty.rs:192)
CStringNew(s) == IF \E i \in 1..Len(s) : s[i] = 0 THEN "NulError" ELSE "Ok"

\* .collect::<Result<Vec<CString>, NulError>>() (pty.rs:190-193)
CollectCStrings(a) == IF \E i \in 1..Len(a) : CStringNew(a[i]) = "NulError" THEN "NulError" ELSE "Ok"

\* wait::WaitStatus values the model distinguishes
ExitCodes == {42}
Signals == {9}
ChildStatuses == [kind : {"Exited"}, n : ExitCodes] \cup [kind : {"Signaled"}, n : Signals]
NoStatus == [kind |-> "None", n |-> 0]
WaitOther == [kind |-> "Other", n |-> 0]
WaitErr == [kind |-> "Err", n |-> 0]

\* pty::Winsize as get_tty_size builds it (pty.rs:42-47): 24 rows, 80 columns
DefaultWinsize == [ws_row |-> 24, ws_col |-> 80]

\* What get_tty_size can return (pty.rs:41-52): the default when the ioctl
\* fails, the terminal's own geometry when it succeeds
TtySizes == {DefaultWinsize, [ws_row |-> 50, ws_col |-> 120]}

\* StartSize with rows and columns swapped
StartSizeRowsFirst(ws) == <<ws.ws_row, ws.ws_col>>

\* the argument of recorder.start: (winsize.ws_col, winsize.ws_row) (pty.rs:19)
StartSize(ws) == <<ws.ws_col, ws.ws_row>>

\* anyhow::Result<i32>
NoResult == [tag |-> "None", code |-> 0, err |-> ""]
Ok(n) == [tag |-> "Ok", code |-> n, err |-> ""]
Err(e) == [tag |-> "Err", code |-> 0, err |-> e]

\* MapWaitStatus with the signal number passed through unshifted
MapWaitStatusRawSignal(w) ==
    CASE w.kind = "Exited" -> Ok(w.n)
      [] w.kind = "Signaled" -> Ok(w.n)
      [] w.kind = "Err" -> Err("wait")
      [] OTHER -> Ok(1)

\* the match of handle_parent (pty.rs:64-69)
MapWaitStatus(w) ==
    CASE w.kind = "Exited" -> Ok(w.n)
      [] w.kind = "Signaled" -> Ok(128 + w.n)
      [] w.kind = "Err" -> Err("wait")
      [] OTHER -> Ok(1)

\* ReconcileExit with the wait's failure looked at before copy's
ReconcileExitWaitFirst(c, w) ==
    IF w.kind = "Err" THEN Err("wait")
    ELSE IF c.tag = "Err" THEN c ELSE MapWaitStatus(w)

\* copy_result?; match wait_result { .. } (pty.rs:62-69)
ReconcileExit(c, w) == IF c.tag = "Err" THEN c ELSE MapWaitStatus(w)

\* -------------------------------------------------------- buffer helpers
\* <[u8]>::rotate_left(k): the first k elements move to the end (pty.rs:259)
RotateLeft(s, k) == [i \in 1..Len(s) |-> s[((i - 1 + k) % Len(s)) + 1]]

\* Truncate that drops nothing
TruncateKeepsAll(s, n) == s

\* Vec::truncate(n): keeps the first n elements (pty.rs:260)
Truncate(s, n) == IF n < Len(s) THEN SubSeq(s, 1, n) ELSE s

\* WriteAllTail without the rotation: truncate keeps the head of data
WriteAllTailNoRotate(data, left) ==
    IF left = 0 THEN << >> ELSE Truncate(data, left)

\* the tail of write_all: what it leaves in data when left bytes of it were
\* not written (pty.rs:253-261)
WriteAllTail(data, left) ==
    IF left = 0
    THEN << >>
    ELSE LET rot == Len(data) - left
         IN Truncate(RotateLeft(data, rot), left)

\* SliceFrom one byte short: the last accepted byte is offered again
SliceFromOffByOne(buf, n) == IF n = 0 THEN buf ELSE SubSeq(buf, n, Len(buf))

\* buf = &buf[n..] (pty.rs:240)
SliceFrom(buf, n) == SubSeq(buf, n + 1, Len(buf))

\* NewBytes ignoring offset: the whole buffer is handed to the recorder
NewBytesWhole(v, offset) == v

\* &output[offset..] / &input[offset..] (pty.rs:109, 164)
NewBytes(v, offset) == SubSeq(v, offset + 1, Len(v))

\* Results of one non-blocking source.read(buf) (pty.rs:215): n >= 1 is
\* Ok(n) with n bytes of the queue, at most the size of buf; 0 is Ok(0),
\* end-of-stream; -1 is Err (EAGAIN on an empty queue, EIO after hang-up).
\* A queue that holds bytes is read without error.  Once the peer is gone and
\* the queue is empty, every read gives the same answer: Ok(0) on a
\* descriptor that signals end-of-stream that way (eofZero), else Err.
ReadResults(q, closed, eofZero) ==
    IF q # << >>
    THEN 1..Min(Len(q), BUF_SIZE)
    ELSE IF closed /\ eofZero THEN {0} ELSE {-1}

\* What stays queued in the kernel after a read took n bytes
QueueAfterRead(q, n) == SubSeq(q, n + 1, Len(q))

\* Results of one non-blocking sink.write(buf) (pty.rs:236): n in 0..len is
\* Ok(n), -1 is Err (EAGAIN when the kernel buffer is full, EIO after
\* hang-up).  A descriptor whose peer is gone accepts nothing.
WriteResults(buf, closed) ==
    IF closed THEN {-1} ELSE (0..Len(buf)) \cup {-1}

\* --------------------------------------------------------------- poller
\* An interest set is "none" (not registered), "R" or "RW".

\* READABLE with writable left in the interest of a drained buffer
ReadableKeepsWritable == "RW"

\* Interest::READABLE: the interest at registration and after the buffer written
\* to the descriptor was emptied (pty.rs:92-93, 126, 153)
READABLE == "R"

\* READABLE | WRITABLE with writable never asked for
WritableNeverAsked == "R"

\* Interest::READABLE | Interest::WRITABLE: the interest after bytes were
\* appended to the buffer written to the descriptor (pty.rs:114, 169)
READABLE_WRITABLE == "RW"

MASTER == 0        \* mio::Token(0)
TTY == 1           \* mio::Token(1)

NoEvent == [token |-> -1, readable |-> FALSE, writable |-> FALSE, read_closed |-> FALSE]

\* The events poll() can report for one descriptor: only a registered
\* descriptor is reported; writable only when asked for; read_closed when
\* the peer has hung up; readable whenever bytes are queued, and possibly
\* spuriously; never an event with no condition.
EventsFor(token, interest, q, closed) ==
    IF interest = "none"
    THEN {}
    ELSE {e \in [token : {token}, readable : BOOLEAN, writable : BOOLEAN,
                 read_closed : BOOLEAN] :
            /\ e.writable => interest = "RW"
            /\ e.read_closed = closed
            /\ q # << >> => e.readable
            /\ e.readable \/ e.writable \/ e.read_closed}

\* Outcomes of registry.reregister(fd, ..): on a registered descriptor it
\* succeeds unless the OS call fails; on a descriptor that is not registered
\* epoll fails with ENOENT and kqueue adds the descriptor.
ReregisterOutcomes(interest, mayFault) ==
    IF interest = "none"
    THEN {"enoent", "added"}
    ELSE {"ok"} \cup (IF mayFault THEN {"fault"} ELSE {})

\* Outcomes of registry.deregister(fd)
DeregisterOutcomes(interest, mayFault) ==
    IF interest = "none"
    THEN {"enoent"}
    ELSE {"ok"} \cup (IF mayFault THEN {"fault"} ELSE {})

\* ---------------------------------------------------------------- state
VARIABLES
    args,          \* exec's argument vector
    pc,            \* position of the parent process
    result,        \* what exec returned in the parent
    ttyOpened,     \* /dev/tty has been opened
    winsize,       \* winsize of exec
    startSize,     \* the size recorder.start was called with
    startCalls,    \* number of recorder.start calls
    forked,        \* forkpty succeeded: pty allocated, child exists
    childPc,       \* position of the child process
    childStatus,   \* how the child terminated
    waited,        \* waitpid has been called
    waitResult,    \* wait_result of handle_parent
    copyResult,    \* copy_result of handle_parent
    mq,            \* bytes the child wrote, not yet read from the master
    childSent,     \* number of bytes the child has written
    slaveClosed,   \* the child's side of the pty is closed
    tq,            \* bytes typed, not yet read from the terminal
    ttyTyped,      \* number of bytes typed
    ttyHup,        \* the controlling terminal has hung up
    masterEofZero, \* reads of the master give Ok(0) once the child's side is closed
    ttyEofZero,    \* reads of the terminal give Ok(0) once it has hung up
    mWritten,      \* bytes the master accepted
    tWritten,      \* bytes the terminal accepted
    input,         \* Vec input of copy
    output,        \* Vec output of copy
    flush,         \* flag flush of copy
    masterInt,     \* interest set of the master in the poller
    ttyInt,        \* interest set of the terminal in the poller
    events,        \* events of this round not yet dispatched
    cur,           \* the event being handled
    offset,        \* local offset of a readable block
    read,          \* local read of read_all
    wbuf,          \* local buf of write_all
    left,          \* value returned by the last write_all
    recOut,        \* concatenation of the recorder.output chunks
    recIn,         \* concatenation of the recorder.input chunks
    faults,        \* injected OS failures so far
    endedBy,       \* how the pump stopped
    roundTtyClosed, \* this round reported the terminal read-closed
    roundFirst,     \* the descriptor serviced first when this round reported both, else -1
    roundMasterInt  \* the master's interest at the readiness wait of this round

launchVars == <<args, result, ttyOpened, winsize, startSize, startCalls, forked>>
childVars == <<childPc, childStatus>>
parentVars == <<waited, waitResult, copyResult, endedBy>>
kernelVars == <<mq, childSent, slaveClosed, tq, ttyTyped, ttyHup, masterEofZero,
               ttyEofZero, mWritten, tWritten>>
bufVars == <<input, output, flush>>
regVars == <<masterInt, ttyInt>>
roundVars == <<events, cur, roundTtyClosed, roundFirst, roundMasterInt>>
localVars == <<offset, read, wbuf, left>>
recVars == <<recOut, recIn>>

vars == <<pc, launchVars, childVars, parentVars, kernelVars, bufVars, regVars,
          roundVars, localVars, recVars, faults>>

Init ==
    /\ args \in ArgVectors
    /\ pc = "open_tty"
    /\ result = NoResult
    /\ ttyOpened = FALSE
    /\ winsize = DefaultWinsize
    /\ startSize = << >>
    /\ startCalls = 0
    /\ forked = FALSE
    /\ childPc = "none"
    /\ childStatus = NoStatus
    /\ waited = FALSE
    /\ waitResult = NoStatus
    /\ copyResult = NoResult
    /\ mq = << >>
    /\ childSent = 0
    /\ slaveClosed = FALSE
    /\ tq = << >>
    /\ ttyTyped = 0
    /\ ttyHup = FALSE
    /\ masterEofZero = FALSE
    /\ ttyEofZero = FALSE
    /\ mWritten = << >>
    /\ tWritten = << >>
    /\ input = << >>
    /\ output = << >>
    /\ flush = FALSE
    /\ masterInt = "none"
    /\ ttyInt = "none"
    /\ events = << >>
    /\ cur = NoEvent
    /\ offset = 0
    /\ read = 0
    /\ wbuf = << >>
    /\ left = 0
    /\ recOut = << >>
    /\ recIn = << >>
    /\ faults = 0
    /\ endedBy = "none"
    /\ roundTtyClosed = FALSE
    /\ roundFirst = -1
    /\ roundMasterInt = "none"

\* An OS call that may fail for a reason outside the model: fail is chosen
\* by the environment, at most MaxFaults times in a run.
Fault(fail) ==
    /\ fail => faults < MaxFaults
    /\ faults' = IF fail THEN faults + 1 ELSE faults

MayFault == faults < MaxFaults

\* ------------------------------------------------------- session launcher
\* let tty = open_tty()?; let winsize = get_tty_size(..) (pty.rs:17-18)
OpenTty ==
    /\ pc = "open_tty"
    /\ \E fail \in BOOLEAN :
        /\ Fault(fail)
        /\ IF fail
           THEN /\ result' = Err("open_tty")
                /\ pc' = "returned"
                /\ UNCHANGED <<ttyOpened, winsize>>
           ELSE /\ ttyOpened' = TRUE
                /\ \E ws \in TtySizes : winsize' = ws
                /\ pc' = "recorder_start"
                /\ UNCHANGED result
    /\ UNCHANGED <<args, startSize, startCalls, forked, childVars, parentVars, kernelVars,
                   bufVars, regVars, roundVars, localVars, recVars>>

\* recorder.start((winsize.ws_col, winsize.ws_row))? (pty.rs:19)
RecorderStart ==
    /\ pc = "recorder_start"
    /\ startCalls' = startCalls + 1
    /\ startSize' = StartSize(winsize)
    /\ \E fail \in BOOLEAN :
        /\ Fault(fail)
        /\ IF fail
           THEN /\ result' = Err("recorder")
                /\ pc' = "returned"
           ELSE /\ pc' = "forkpty"
                /\ UNCHANGED result
    /\ UNCHANGED <<args, ttyOpened, winsize, forked, childVars, parentVars, kernelVars,
                   bufVars, regVars, roundVars, localVars, recVars>>

\* let result = unsafe { pty::forkpty(Some(&winsize), None) }?; match
\* result.fork_result (pty.rs:20-31): the parent goes on to handle_parent,
\* the child to handle_child
ForkPty ==
    /\ pc = "forkpty"
    /\ \E fail \in BOOLEAN :
        /\ Fault(fail)
        /\ IF fail
           THEN /\ result' = Err("forkpty")
                /\ pc' = "returned"
                /\ UNCHANGED <<forked, childPc>>
           ELSE /\ forked' = TRUE
                /\ childPc' = "handle_child"
                /\ pc' = "copy"
                /\ UNCHANGED result
    /\ UNCHANGED <<args, ttyOpened, winsize, startSize, startCalls, childStatus, parentVars, kernelVars,
                   bufVars, regVars, roundVars, localVars, recVars>>

\* ------------------------------------------------------------ child side
\* let args = args.iter().map(|s| CString::new(s.as_ref())).collect()?
\* (pty.rs:190-193); the ? returns the NulError to exec, whose own ? on
\* pty.rs:28 returns it to exec's caller, in the child process
ChildCStrings ==
    /\ childPc = "handle_child"
    /\ childPc' = IF CollectCStrings(args) = "Ok" THEN "signal" ELSE "returned"
    /\ UNCHANGED <<pc, launchVars, childStatus, parentVars, kernelVars, bufVars,
                   regVars, roundVars, localVars, recVars, faults>>

\* unsafe { signal::signal(Signal::SIGPIPE, SigHandler::SigDfl) }? (pty.rs:195)
ChildSignal ==
    /\ childPc = "signal"
    /\ \E fail \in BOOLEAN :
        /\ Fault(fail)
        /\ childPc' = IF fail THEN "returned" ELSE "execvp"
    /\ UNCHANGED <<pc, launchVars, childStatus, parentVars, kernelVars, bufVars,
                   regVars, roundVars, localVars, recVars>>

\* unistd::execvp(&args[0], &args)?; unsafe { libc::_exit(1) } (pty.rs:196-197).
\* execvp returns only on failure, as Err, and the ? returns that Err to the
\* caller: the _exit(1) after it is never executed.
ChildExecvp ==
    /\ childPc = "execvp"
    /\ \E found \in BOOLEAN :
        childPc' = IF found THEN "running" ELSE "returned"
    /\ UNCHANGED <<pc, launchVars, childStatus, parentVars, kernelVars, bufVars,
                   regVars, roundVars, localVars, recVars, faults>>

\* copy has not returned yet
PumpLive == pc \notin {"open_tty", "recorder_start", "forkpty", "waitpid", "match",
                       "returned", "panicked"}

\* The program the child became writes one byte to its terminal.
ChildWrite ==
    /\ PumpLive
    /\ childPc = "running"
    /\ childSent < MaxOut
    /\ childSent' = childSent + 1
    /\ mq' = Append(mq, childSent + 1)
    /\ UNCHANGED <<pc, launchVars, childVars, parentVars, slaveClosed, tq, ttyTyped,
                   ttyHup, masterEofZero, ttyEofZero, mWritten, tWritten, bufVars,
                   regVars, roundVars, localVars, recVars, faults>>

\* The child (the program it became, or exec's caller when exec returned in
\* the child) terminates, normally or by a signal; its side of the pty closes.
ChildExit ==
    /\ childPc \in {"running", "returned"}
    /\ \E st \in ChildStatuses : childStatus' = st
    /\ childPc' = "exited"
    /\ slaveClosed' = TRUE
    /\ \E z \in BOOLEAN : masterEofZero' = z
    /\ UNCHANGED <<pc, launchVars, parentVars, mq, childSent, tq, ttyTyped, ttyHup,
                   ttyEofZero, mWritten, tWritten, bufVars, regVars, roundVars,
                   localVars, recVars, faults>>

\* ------------------------------------------------- controlling terminal
\* The user types one byte.
TtyType ==
    /\ PumpLive
    /\ ~ttyHup
    /\ ttyTyped < MaxIn
    /\ ttyTyped' = ttyTyped + 1
    /\ tq' = Append(tq, ttyTyped + 1)
    /\ UNCHANGED <<pc, launchVars, childVars, parentVars, mq, childSent, slaveClosed,
                   ttyHup, masterEofZero, ttyEofZero, mWritten, tWritten, bufVars,
                   regVars, roundVars, localVars, recVars, faults>>

\* The controlling terminal goes away.
TtyHangup ==
    /\ PumpLive
    /\ ~ttyHup
    /\ ttyHup' = TRUE
    /\ \E z \in BOOLEAN : ttyEofZero' = z
    /\ UNCHANGED <<pc, launchVars, childVars, parentVars, mq, childSent, slaveClosed,
                   tq, ttyTyped, masterEofZero, mWritten, tWritten, bufVars, regVars,
                   roundVars, localVars, recVars, faults>>

\* ---------------------------------------------------- exit reconciliation
\* let wait_result = wait::waitpid(child, None) (pty.rs:61): blocks until the
\* child has terminated, and reports how; or reports another status of the
\* child; or fails.
WaitPid ==
    /\ pc = "waitpid"
    /\ waited' = TRUE
    /\ \/ /\ childPc = "exited"
          /\ waitResult' = childStatus
          /\ UNCHANGED faults
       \/ /\ waitResult' = WaitOther
          /\ UNCHANGED faults
       \/ /\ Fault(TRUE)
          /\ waitResult' = WaitErr
    /\ pc' = "match"
    /\ UNCHANGED <<launchVars, childVars, copyResult, endedBy, kernelVars, bufVars,
                   regVars, roundVars, localVars, recVars>>

\* copy_result?; match wait_result { .. } (pty.rs:62-69)
HandleParentReturn ==
    /\ pc = "match"
    /\ result' = ReconcileExit(copyResult, waitResult)
    /\ pc' = "returned"
    /\ UNCHANGED <<args, ttyOpened, winsize, startSize, startCalls, forked, childVars, parentVars,
                   kernelVars, bufVars, regVars, roundVars, localVars, recVars, faults>>

\* ------------------------------------------------------------ event pump
\* copy goes on at position next, within the same event
Continue(next) ==
    /\ pc' = next
    /\ UNCHANGED <<copyResult, endedBy, events, cur>>

\* copy goes on at position next of the loop, with the events evs left and
\* the event e at hand
Loop(next, evs, e) ==
    /\ pc' = next
    /\ events' = evs
    /\ cur' = e
    /\ UNCHANGED <<copyResult, endedBy>>

\* copy returns res to handle_parent, which goes on to waitpid
\* (pty.rs:60-61); the events of the round are dropped with copy's frame
Return(res, by) ==
    /\ pc' = "waitpid"
    /\ copyResult' = res
    /\ endedBy' = by
    /\ events' = << >>
    /\ cur' = NoEvent

\* an unwrap() on the Err of the call named by: the panic unwinds out of copy,
\* handle_parent and exec
Panic(by) ==
    /\ pc' = "panicked"
    /\ endedBy' = by
    /\ events' = << >>
    /\ cur' = NoEvent
    /\ UNCHANGED copyResult

\* The fallible calls before the loop, in order (pty.rs:78-96)
SetupCalls == <<"poll_new", "raw_mode", "nonblock_master", "nonblock_tty",
                "register_master", "register_tty">>

\* copy up to the loop (pty.rs:77-96): the first call that fails returns its
\* error; the registrations made before it stay
CopySetup ==
    /\ pc = "copy"
    /\ \E failAt \in 0..Len(SetupCalls) :
        /\ Fault(failAt # 0)
        /\ masterInt' = IF failAt = 0 \/ failAt > 5 THEN READABLE ELSE "none"
        /\ ttyInt' = IF failAt = 0 THEN READABLE ELSE "none"
        /\ IF failAt = 0
           THEN Continue("poll")
           ELSE Return(Err(SetupCalls[failAt]), "error")
    /\ UNCHANGED <<launchVars, childVars, waited, waitResult, kernelVars, bufVars,
                   roundTtyClosed, roundFirst, roundMasterInt, localVars, recVars>>

\* The rounds poll() can report: one event per ready descriptor, in either order
ReadyEvents ==
    LET ms == EventsFor(MASTER, masterInt, mq, slaveClosed)
        ts == EventsFor(TTY, ttyInt, tq, ttyHup)
    IN {<<m>> : m \in ms} \cup {<<t>> : t \in ts}
       \cup {<<m, t>> : m \in ms, t \in ts} \cup {<<t, m>> : m \in ms, t \in ts}

\* poll.poll(&mut events, None).unwrap() (pty.rs:99)
Poll ==
    /\ pc = "poll"
    /\ \/ /\ Fault(TRUE)
          /\ Panic("panic_poll")
          /\ UNCHANGED <<roundTtyClosed, roundFirst, roundMasterInt>>
       \/ /\ \E evs \in ReadyEvents :
              /\ Loop("dispatch", evs, NoEvent)
              /\ roundTtyClosed' = \E i \in 1..Len(evs) :
                                       evs[i].token = TTY /\ evs[i].read_closed
              /\ roundFirst' = IF Len(evs) = 2 THEN evs[1].token ELSE -1
              /\ roundMasterInt' = masterInt
          /\ UNCHANGED faults
    /\ UNCHANGED <<launchVars, childVars, waited, waitResult, kernelVars, bufVars,
                   regVars, localVars, recVars>>

\* for event in events.iter() { match event.token() { .. } } (pty.rs:101-103,
\* 142); after the last event, the next round
NextEvent ==
    /\ pc = "dispatch"
    /\ IF events = << >>
       THEN /\ Loop("poll", << >>, NoEvent)
            /\ roundFirst' = -1
            /\ roundMasterInt' = "none"
       ELSE /\ Loop(IF Head(events).token = MASTER THEN "m_readable" ELSE "t_writable",
                    Tail(events), Head(events))
            /\ UNCHANGED <<roundFirst, roundMasterInt>>
    /\ UNCHANGED <<launchVars, childVars, waited, waitResult, kernelVars, bufVars,
                   regVars, roundTtyClosed, localVars, recVars, faults>>

\* if event.is_readable() { let offset = output.len(); (pty.rs:104-106)
MasterReadable ==
    /\ pc = "m_readable"
    /\ IF cur.readable
       THEN /\ offset' = Len(output)
            /\ read' = 0
            /\ Continue("m_read")
       ELSE /\ Continue("m_writable")
            /\ UNCHANGED <<offset, read>>
    /\ UNCHANGED <<launchVars, childVars, waited, waitResult, kernelVars, bufVars,
                   regVars, roundTtyClosed, roundFirst, roundMasterInt, wbuf, left, recVars, faults>>

\* MasterRead with the read's Err returned from copy instead of ending the drain
MasterReadFatal ==
    /\ pc = "m_read"
    /\ \E n \in ReadResults(mq, slaveClosed, masterEofZero) :
        IF n = -1
        THEN /\ Return(Err("read"), "error")
             /\ UNCHANGED <<mq, output, read>>
        ELSE /\ output' = output \o SubSeq(mq, 1, n)
             /\ mq' = QueueAfterRead(mq, n)
             /\ read' = read + n
             /\ Continue("m_read")
    /\ UNCHANGED <<launchVars, childVars, waited, waitResult, childSent, slaveClosed,
                   tq, ttyTyped, ttyHup, masterEofZero, ttyEofZero, mWritten, tWritten,
                   input, flush, regVars,
                   roundTtyClosed, roundFirst, roundMasterInt, offset, wbuf, left, recVars, faults>>

\* one iteration of the loop of read_all(&mut master, &mut buf, &mut output)
\* (pty.rs:214-227)
MasterRead ==
    /\ pc = "m_read"
    /\ \E n \in ReadResults(mq, slaveClosed, masterEofZero) :
        IF n = -1
        THEN /\ Continue("m_read_done")
             /\ UNCHANGED <<mq, output, read>>
        ELSE /\ output' = output \o SubSeq(mq, 1, n)
             /\ mq' = QueueAfterRead(mq, n)
             /\ read' = read + n
             /\ Continue("m_read")
    /\ UNCHANGED <<launchVars, childVars, waited, waitResult, childSent, slaveClosed,
                   tq, ttyTyped, ttyHup, masterEofZero, ttyEofZero, mWritten, tWritten,
                   input, flush, regVars,
                   roundTtyClosed, roundFirst, roundMasterInt, offset, wbuf, left, recVars, faults>>

\* Ok(read) and the rest of the readable block (pty.rs:229, 108-117)
MasterReadDone ==
    /\ pc = "m_read_done"
    /\ IF read > 0
       THEN /\ recOut' = recOut \o NewBytes(output, offset)
            /\ \E o \in ReregisterOutcomes(ttyInt, MayFault) :
                /\ Fault(o = "fault")
                /\ IF o \in {"ok", "added"}
                   THEN /\ ttyInt' = READABLE_WRITABLE
                        /\ Continue("m_writable")
                   ELSE /\ Return(Err("reregister_tty"), "error")
                        /\ UNCHANGED ttyInt
       ELSE /\ Continue("m_writable")
            /\ UNCHANGED <<recOut, ttyInt, faults>>
    /\ offset' = 0
    /\ read' = 0
    /\ UNCHANGED <<launchVars, childVars, waited, waitResult, kernelVars, bufVars,
                   masterInt, roundTtyClosed, roundFirst, roundMasterInt, wbuf, left, recIn>>

\* if event.is_writable() { write_all(&mut master, &mut input): let mut buf:
\* &[u8] = data.as_ref() (pty.rs:119-120, 233)
MasterWritable ==
    /\ pc = "m_writable"
    /\ IF cur.writable
       THEN /\ wbuf' = input
            /\ Continue("m_write")
       ELSE /\ Continue("m_closed")
            /\ UNCHANGED wbuf
    /\ UNCHANGED <<launchVars, childVars, waited, waitResult, kernelVars, bufVars,
                   regVars, roundTtyClosed, roundFirst, roundMasterInt, offset, read, left, recVars, faults>>

\* one iteration of the loop of write_all(&mut master, &mut input)
\* (pty.rs:235-251)
MasterWrite ==
    /\ pc = "m_write"
    /\ \E n \in WriteResults(wbuf, slaveClosed) :
        IF n = -1
        THEN /\ Continue("m_write_done")
             /\ UNCHANGED <<mWritten, wbuf>>
        ELSE /\ mWritten' = mWritten \o SubSeq(wbuf, 1, n)
             /\ wbuf' = SliceFrom(wbuf, n)
             /\ Continue(IF n > 0 /\ SliceFrom(wbuf, n) = << >>
                         THEN "m_write_done" ELSE "m_write")
    /\ UNCHANGED <<launchVars, childVars, waited, waitResult, mq, childSent,
                   slaveClosed, tq, ttyTyped, ttyHup, masterEofZero, ttyEofZero,
                   tWritten, bufVars, regVars,
                   roundTtyClosed, roundFirst, roundMasterInt, offset, read, left, recVars, faults>>

\* the tail of write_all and the rest of the writable block (pty.rs:253-263,
\* 122-129)
MasterWriteDone ==
    /\ pc = "m_write_done"
    /\ left' = Len(wbuf)
    /\ input' = WriteAllTail(input, Len(wbuf))
    /\ wbuf' = << >>
    /\ IF Len(wbuf) = 0
       THEN \E o \in ReregisterOutcomes(masterInt, MayFault) :
                /\ Fault(o = "fault")
                /\ IF o \in {"ok", "added"}
                   THEN /\ masterInt' = READABLE
                        /\ Continue("m_closed")
                   ELSE /\ Return(Err("reregister_master"), "error")
                        /\ UNCHANGED masterInt
       ELSE /\ Continue("m_closed")
            /\ UNCHANGED <<masterInt, faults>>
    /\ UNCHANGED <<launchVars, childVars, waited, waitResult, kernelVars, output,
                   flush, ttyInt, roundTtyClosed, roundFirst, roundMasterInt, offset, read, recVars>>

\* if event.is_read_closed() { deregister master; flush or return (pty.rs:131-139)
MasterReadClosed ==
    /\ pc = "m_closed"
    /\ IF cur.read_closed
       THEN \E o \in DeregisterOutcomes(masterInt, MayFault) :
                /\ Fault(o = "fault")
                /\ IF o = "ok"
                   THEN /\ masterInt' = "none"
                        /\ IF output # << >>
                           THEN /\ flush' = TRUE
                                /\ Continue("dispatch")
                           ELSE /\ Return(Ok(0), "master_closed")
                                /\ UNCHANGED flush
                   ELSE /\ Return(Err("deregister_master"), "error")
                        /\ UNCHANGED <<masterInt, flush>>
       ELSE /\ Continue("dispatch")
            /\ UNCHANGED <<masterInt, flush, faults>>
    /\ left' = 0
    /\ UNCHANGED <<launchVars, childVars, waited, waitResult, kernelVars, input,
                   output, ttyInt, roundTtyClosed, roundFirst, roundMasterInt, offset, read, wbuf, recVars>>

\* if event.is_writable() { write_all(&mut tty, &mut output): let mut buf:
\* &[u8] = data.as_ref() (pty.rs:143-144, 233)
TtyWritable ==
    /\ pc = "t_writable"
    /\ IF cur.writable
       THEN /\ wbuf' = output
            /\ Continue("t_write")
       ELSE /\ Continue("t_readable")
            /\ UNCHANGED wbuf
    /\ UNCHANGED <<launchVars, childVars, waited, waitResult, kernelVars, bufVars,
                   regVars, roundTtyClosed, roundFirst, roundMasterInt, offset, read, left, recVars, faults>>

\* one iteration of the loop of write_all(&mut tty, &mut output)
\* (pty.rs:235-251)
TtyWrite ==
    /\ pc = "t_write"
    /\ \E n \in WriteResults(wbuf, ttyHup) :
        IF n = -1
        THEN /\ Continue("t_write_done")
             /\ UNCHANGED <<tWritten, wbuf>>
        ELSE /\ tWritten' = tWritten \o SubSeq(wbuf, 1, n)
             /\ wbuf' = SliceFrom(wbuf, n)
             /\ Continue(IF n > 0 /\ SliceFrom(wbuf, n) = << >>
                         THEN "t_write_done" ELSE "t_write")
    /\ UNCHANGED <<launchVars, childVars, waited, waitResult, mq, childSent,
                   slaveClosed, tq, ttyTyped, ttyHup, masterEofZero, ttyEofZero,
                   mWritten, bufVars, regVars,
                   roundTtyClosed, roundFirst, roundMasterInt, offset, read, left, recVars, faults>>

\* the tail of write_all and the rest of the writable block (pty.rs:253-263,
\* 146-157)
TtyWriteDone ==
    /\ pc = "t_write_done"
    /\ left' = Len(wbuf)
    /\ output' = WriteAllTail(output, Len(wbuf))
    /\ wbuf' = << >>
    /\ IF Len(wbuf) = 0
       THEN IF flush
            THEN /\ Return(Ok(0), "flushed")
                 /\ UNCHANGED <<ttyInt, faults>>
            ELSE \E o \in ReregisterOutcomes(ttyInt, MayFault) :
                     /\ Fault(o = "fault")
                     /\ IF o \in {"ok", "added"}
                        THEN /\ ttyInt' = READABLE
                             /\ Continue("t_readable")
                        ELSE /\ Return(Err("reregister_tty"), "error")
                             /\ UNCHANGED ttyInt
       ELSE /\ Continue("t_readable")
            /\ UNCHANGED <<ttyInt, faults>>
    /\ UNCHANGED <<launchVars, childVars, waited, waitResult, kernelVars, input,
                   flush, masterInt, roundTtyClosed, roundFirst, roundMasterInt, offset, read, recVars>>

\* if event.is_readable() { let offset = input.len(); (pty.rs:159-161)
TtyReadable ==
    /\ pc = "t_readable"
    /\ IF cur.readable
       THEN /\ offset' = Len(input)
            /\ read' = 0
            /\ Continue("t_read")
       ELSE /\ Continue("t_closed")
            /\ UNCHANGED <<offset, read>>
    /\ left' = 0
    /\ UNCHANGED <<launchVars, childVars, waited, waitResult, kernelVars, bufVars,
                   regVars, roundTtyClosed, roundFirst, roundMasterInt, wbuf, recVars, faults>>

\* one iteration of the loop of read_all(&mut tty.deref(), &mut buf, &mut input)
\* (pty.rs:214-227)
TtyRead ==
    /\ pc = "t_read"
    /\ \E n \in ReadResults(tq, ttyHup, ttyEofZero) :
        IF n = -1
        THEN /\ Continue("t_read_done")
             /\ UNCHANGED <<tq, input, read>>
        ELSE /\ input' = input \o SubSeq(tq, 1, n)
             /\ tq' = QueueAfterRead(tq, n)
             /\ read' = read + n
             /\ Continue("t_read")
    /\ UNCHANGED <<launchVars, childVars, waited, waitResult, mq, childSent,
                   slaveClosed, ttyTyped, ttyHup, masterEofZero, ttyEofZero, mWritten,
                   tWritten, output, flush,
                   regVars, roundTtyClosed, roundFirst, roundMasterInt, offset, wbuf, left, recVars, faults>>

\* Ok(read) and the rest of the readable block (pty.rs:229, 163-172)
TtyReadDone ==
    /\ pc = "t_read_done"
    /\ IF read > 0
       THEN /\ recIn' = recIn \o NewBytes(input, offset)
            /\ \E o \in ReregisterOutcomes(masterInt, MayFault) :
                /\ Fault(o = "fault")
                /\ IF o \in {"ok", "added"}
                   THEN /\ masterInt' = READABLE_WRITABLE
                        /\ Continue("t_closed")
                   ELSE /\ Return(Err("reregister_master"), "error")
                        /\ UNCHANGED masterInt
       ELSE /\ Continue("t_closed")
            /\ UNCHANGED <<recIn, masterInt, faults>>
    /\ offset' = 0
    /\ read' = 0
    /\ UNCHANGED <<launchVars, childVars, waited, waitResult, kernelVars, bufVars,
                   ttyInt, roundTtyClosed, roundFirst, roundMasterInt, wbuf, left, recOut>>

\* if event.is_read_closed() { poll.registry().deregister(&mut tty_source)
\* .unwrap(); return Ok(()) } (pty.rs:174-177)
TtyReadClosed ==
    /\ pc = "t_closed"
    /\ IF cur.read_closed
       THEN \E o \in DeregisterOutcomes(ttyInt, MayFault) :
                /\ Fault(o = "fault")
                /\ IF o = "ok"
                   THEN /\ ttyInt' = "none"
                        /\ Return(Ok(0), "tty_closed")
                   ELSE /\ Panic("panic_deregister_tty")
                        /\ UNCHANGED ttyInt
       ELSE /\ Continue("dispatch")
            /\ UNCHANGED <<ttyInt, faults>>
    /\ UNCHANGED <<launchVars, childVars, waited, waitResult, kernelVars, bufVars,
                   masterInt, roundTtyClosed, roundFirst, roundMasterInt, localVars, recVars>>

\* ------------------------------------------------------------ the system
Next ==
    \/ OpenTty
    \/ RecorderStart
    \/ ForkPty
    \/ ChildCStrings
    \/ ChildSignal
    \/ ChildExecvp
    \/ ChildWrite
    \/ ChildExit
    \/ TtyType
    \/ TtyHangup
    \/ CopySetup
    \/ Poll
    \/ NextEvent
    \/ MasterReadable
    \/ MasterRead
    \/ MasterReadDone
    \/ MasterWritable
    \/ MasterWrite
    \/ MasterWriteDone
    \/ MasterReadClosed
    \/ TtyWritable
    \/ TtyWrite
    \/ TtyWriteDone
    \/ TtyReadable
    \/ TtyRead
    \/ TtyReadDone
    \/ TtyReadClosed
    \/ WaitPid
    \/ HandleParentReturn

Spec == Init /\ [][Next]_vars

\* ================================================================ claims
PumpEnded == endedBy # "none"

\* bytes appended to output by a master drain still under way, not yet
\* handed to recorder.output
OutUnrecorded == IF pc \in {"m_read", "m_read_done"} THEN NewBytes(output, offset) ELSE << >>

\* bytes appended to input by a terminal drain still under way
InUnrecorded == IF pc \in {"t_read", "t_read_done"} THEN NewBytes(input, offset) ELSE << >>

\* what of the output buffer the terminal has not accepted
OutPending == IF pc \in {"t_write", "t_write_done"} THEN wbuf ELSE output

\* what of the input buffer the master has not accepted
InPending == IF pc \in {"m_write", "m_write_done"} THEN wbuf ELSE input

\* C1: the chunks given to recorder.output, concatenated, are exactly the
\* bytes read from the master so far, in order, without gap or duplicate
\* (with the bytes of a drain under way and the bytes still queued in the
\* kernel they make up everything the child wrote); and when the pump ends
\* because the master closed, they are everything the child wrote.
C1_NoLossOutput ==
    /\ recOut \o OutUnrecorded \o mq = Stream(childSent)
    /\ endedBy \in {"master_closed", "flushed"} => recOut = Stream(childSent)

\* C1 witness: the pump ended by flushing after the master closed, with
\* every byte the child wrote recorded and written to the terminal
W1_OutputRecorded ==
    /\ endedBy = "flushed"
    /\ recOut = Stream(MaxOut)
    /\ tWritten = Stream(MaxOut)

\* C2 (as claimed): in a run where the terminal did not hang up and no OS
\* call failed for an outside reason, the pump never stops while the output
\* buffer holds bytes
C2_GracefulEnd ==
    (PumpEnded /\ ~ttyHup /\ faults = 0) => output = << >>

\* C3: after write_all the buffer holds exactly the bytes its sink has not
\* accepted, in order, and the value returned is its length; over all
\* attempts the bytes each sink accepted followed by the bytes pending are
\* exactly the bytes enqueued, each once, in order
C3_PartialWrite ==
    /\ tWritten \o OutPending = SubSeq(Stream(childSent), 1, childSent - Len(mq))
    /\ mWritten \o InPending = SubSeq(Stream(ttyTyped), 1, ttyTyped - Len(tq))
    /\ (pc = "m_closed" /\ cur.writable) => left = Len(input)
    /\ (pc = "t_readable" /\ cur.writable) => left = Len(output)

\* C3 witness: a write_all on the terminal returned after the terminal took
\* one byte of two
W3_PartialWriteDone ==
    /\ pc = "t_readable"
    /\ cur.writable
    /\ left = 1
    /\ tWritten = <<1>>
    /\ output = <<2>>

\* C4 (as claimed): exec never ends in the parent, by returning or by
\* unwinding, with a forked child it has not waited for
C4_ChildReaped ==
    (forked /\ pc \in {"returned", "panicked"}) => waited

\* C5: after a successful pump, the result is N for a child that exited with
\* N, 128 + S for a child killed by signal S, 1 for another wait status, and
\* an error when waitpid failed
C5_ExitCodeMapping ==
    (pc = "returned" /\ copyResult.tag = "Ok") =>
        /\ waitResult.kind = "Exited" => result = Ok(waitResult.n)
        /\ waitResult.kind = "Signaled" => result = Ok(128 + waitResult.n)
        /\ waitResult.kind = "Other" => result = Ok(1)
        /\ waitResult.kind = "Err" => result.tag = "Err"
        /\ (waitResult.kind \in {"Exited", "Signaled"}) => waitResult = childStatus
        /\ waitResult.kind \in {"Exited", "Signaled", "Other", "Err"}

\* C5 witness: a child killed by signal 9 after a successful pump gives 137
W5_Signal9Gives137 ==
    /\ pc = "returned"
    /\ copyResult.tag = "Ok"
    /\ childStatus = [kind |-> "Signaled", n |-> 9]
    /\ result = Ok(137)

\* C6: a failed pump's error is what handle_parent returns whatever the wait
\* gave; a failed wait is returned only after a successful pump; a number is
\* returned only when both succeeded
C6_ErrorPrecedence ==
    (pc = "returned" /\ forked) =>
        /\ copyResult.tag = "Err" => result = copyResult
        /\ (copyResult.tag = "Ok" /\ waitResult.kind = "Err") => result = Err("wait")
        /\ result.tag = "Ok" => (copyResult.tag = "Ok" /\ waitResult.kind # "Err")

\* C6 witness: pump and wait both failed and exec has returned
W6_BothFailed ==
    /\ pc = "returned"
    /\ copyResult.tag = "Err"
    /\ waitResult = WaitErr

\* C7 (as claimed): with arguments free of NUL and no OS call failing for
\* an outside reason, exec never returns in the child
C7_ChildNeverReturns ==
    (CollectCStrings(args) = "Ok" /\ faults = 0) => childPc # "returned"

\* C8 (as claimed): with a NUL byte in an argument, the terminal is never
\* opened, recorder.start never called and forkpty never done
C8_ValidationFirst ==
    CollectCStrings(args) = "NulError" =>
        (~ttyOpened /\ startCalls = 0 /\ ~forked)

\* C9 (as claimed): no round that reported the terminal read-closed is
\* followed by another readiness wait, and, unless an OS call failed for an
\* outside reason, the pump ends such a round with success
C9_AbruptEnd ==
    /\ pc = "poll" => ~roundTtyClosed
    /\ (roundTtyClosed /\ PumpEnded /\ faults = 0) => copyResult.tag = "Ok"

\* C10: the chunks given to recorder.input, concatenated, are exactly the
\* bytes read from the terminal so far, in order, without gap or duplicate,
\* and the bytes the master accepted are a prefix of them
C10_InputRoundTrip ==
    /\ recIn \o InUnrecorded \o tq = Stream(ttyTyped)
    /\ IsPrefix(mWritten, recIn)

\* C10 witness: two typed bytes were recorded and the master has taken the
\* first of them only
W10_InputRecorded ==
    /\ recIn = Stream(MaxIn)
    /\ mWritten = <<1>>
    /\ input = <<2>>

\* C11: recorder.start is called at most once, with (columns, rows) of the
\* terminal; the pty and the child exist, and output or input is recorded,
\* only after that call; and when start failed, exec returned its error
\* with no pty, no child and nothing recorded
C11_StartFirst ==
    /\ startCalls <= 1
    /\ startCalls = 1 => startSize = <<winsize.ws_col, winsize.ws_row>>
    /\ (forked \/ childPc # "none" \/ recOut # << >> \/ recIn # << >>) => startCalls = 1
    /\ result = Err("recorder") =>
          (pc = "returned" /\ ~forked /\ childPc = "none" /\ recOut = << >> /\ recIn = << >>)
    /\ (startCalls = 1 /\ pc = "returned" /\ ~forked) => result.tag = "Err"

\* C11 witness: start was called once with 120 columns and 50 rows, and
\* output and input were recorded afterwards
W11_StartedThenRecorded ==
    /\ startCalls = 1
    /\ startSize = <<120, 50>>
    /\ recOut # << >>
    /\ recIn # << >>

\* C12 (as claimed): a drain or flush under way can always go on: its next
\* read or write call can end the loop or move a byte.  Where this fails the
\* only result the call can have, now and on every later attempt, is Ok(0),
\* on which the loop repeats the call with nothing changed.
C12_NoStall ==
    /\ pc = "m_read" => ENABLED <<MasterRead>>_vars
    /\ pc = "t_read" => ENABLED <<TtyRead>>_vars
    /\ pc = "m_write" => ENABLED <<MasterWrite>>_vars
    /\ pc = "t_write" => ENABLED <<TtyWrite>>_vars

\* the poller calls whose failure copy returns or panics on
RegistryCalls == {"register_master", "register_tty", "reregister_master",
                  "reregister_tty", "deregister_master"}

\* the other fallible calls of copy before the loop
OtherSetupCalls == {"poll_new", "raw_mode", "nonblock_master", "nonblock_tty"}

\* C13 (as claimed): the pump stops only through master read-closed,
\* terminal read-closed, or a failure of a poller registration or
\* deregistration
C13_StopCausesClaimed ==
    PumpEnded =>
        \/ endedBy \in {"master_closed", "flushed", "tty_closed", "panic_deregister_tty"}
        \/ endedBy = "error" /\ copyResult.err \in RegistryCalls

\* the causes for which the pump stops
C13_StopCauses ==
    PumpEnded =>
        \/ endedBy \in {"master_closed", "flushed", "tty_closed", "panic_deregister_tty",
                        "panic_poll"}
        \/ endedBy = "error" /\ copyResult.err \in RegistryCalls \cup OtherSetupCalls

\* a step on which a read or write call failed, and the step after a drain
\* or flush ended
C13_ErrStep ==
    /\ (pc \in {"m_read", "t_read"} /\ pc' # pc) =>
          /\ pc' = IF pc = "m_read" THEN "m_read_done" ELSE "t_read_done"
          /\ UNCHANGED <<endedBy, copyResult, input, output, mq, tq, recOut, recIn>>
    /\ (pc \in {"m_write", "t_write"} /\ pc' # pc /\ wbuf' = wbuf) =>
          /\ pc' = IF pc = "m_write" THEN "m_write_done" ELSE "t_write_done"
          /\ UNCHANGED <<endedBy, copyResult, input, output, mWritten, tWritten>>
    /\ (pc = "m_read_done" /\ pc' # pc) => (pc' = "m_writable" \/ copyResult'.err = "reregister_tty")
    /\ (pc = "t_read_done" /\ pc' # pc) => (pc' = "t_closed" \/ copyResult'.err = "reregister_master")
    /\ (pc = "m_write_done" /\ pc' # pc) =>
          /\ input' = wbuf
          /\ pc' = "m_closed" \/ copyResult'.err = "reregister_master"
    /\ (pc = "t_write_done" /\ pc' # pc) =>
          /\ output' = wbuf
          /\ pc' = "t_readable" \/ endedBy' = "flushed" \/ copyResult'.err = "reregister_tty"

\* C13: a failing read or write ends only the drain or flush it is part of:
\* the pump goes on at the rest of the block with its result unset and the
\* buffer holding exactly the bytes not transferred; and the pump stops only
\* through master read-closed, terminal read-closed, a failure of a poller
\* registration or deregistration, a failure of another call before the
\* loop, or a failing readiness wait
C13_IoErrorsSwallowed == []C13_StopCauses /\ [][C13_ErrStep]_vars

\* C13 witness: a write to the terminal failed with no byte taken, both
\* bytes are still in the output buffer and the pump goes on
W13_WriteErrSwallowed ==
    /\ pc = "t_readable"
    /\ cur.writable
    /\ left = 2
    /\ output = <<1, 2>>
    /\ tWritten = << >>
    /\ ~PumpEnded

\* C14: once master read-closed was serviced and the master removed from
\* the poller (flush is set by that very step), no later step of the pump
\* issues a poller operation on the master, reads from it or writes to it:
\* its interest stays "none", no reregister of it fails, and no byte of the
\* input buffer reaches it
C14_RetirementFinal ==
    [][flush =>
          /\ masterInt' = "none"
          /\ copyResult'.err # "reregister_master"
          /\ mWritten' = mWritten
          /\ pc' \notin {"m_read", "m_write"}]_vars

\* a round that reported both descriptors and was serviced terminal first
\* does not end the pump with an error unless a failure was injected
C15_TtyFirstNoError ==
    (roundFirst = TTY /\ faults = 0 /\ PumpEnded) => copyResult.tag # "Err"

\* C15: the two servicing orders of a round that reported both descriptors
\* end alike: with no failure injected the terminal-first order does not end
\* the pump with an error, and the master-first order ends in the failure
\* of the reregister of the master only if the same call could fail as well
\* in the terminal-first order, where it is issued with the interest the
\* master had at the readiness wait
C15_OrderIndependent ==
    /\ C15_TtyFirstNoError
    /\ (roundFirst = MASTER /\ faults = 0 /\ copyResult = Err("reregister_master")) =>
          ReregisterOutcomes(roundMasterInt, FALSE) \cap {"enoent", "fault"} # {}

\* C16: at every readiness wait of the running pump the terminal is asked
\* for writable exactly when the output buffer is non-empty and the master,
\* while registered, exactly when the input buffer is non-empty; a
\* registered descriptor is always asked for readable (both registered
\* interests, "R" and "RW", hold it)
C16_InterestTracksOccupancy ==
    /\ masterInt \in {"none", "R", "RW"}
    /\ ttyInt \in {"none", "R", "RW"}
    /\ pc = "poll" =>
          /\ ttyInt # "none"
          /\ ttyInt = "RW" <=> output # << >>
          /\ masterInt # "none" => (masterInt = "RW" <=> input # << >>)

\* C16 witness: a readiness wait with bytes in both buffers and writable
\* asked for on both descriptors, after bytes went through in both directions
W16_BothWritableAsked ==
    /\ pc = "poll"
    /\ output # << >> /\ input # << >>
    /\ ttyInt = "RW" /\ masterInt = "RW"
    /\ tWritten # << >> /\ mWritten # << >>

\* a is the end of b
IsSuffix(a, b) ==
    /\ Len(a) <= Len(b)
    /\ a = SubSeq(b, Len(b) - Len(a) + 1, Len(b))

\* the bytes appended to the output buffer so far: everything read from the master
OutAppended == SubSeq(Stream(childSent), 1, childSent - Len(mq))

\* the bytes appended to the input buffer so far: everything read from the terminal
InAppended == SubSeq(Stream(ttyTyped), 1, ttyTyped - Len(tq))

\* each buffer is the end of its appended stream and, outside a write_all,
\* appended = removed + held, the bytes removed being those its sink took
C17_Held ==
    /\ IsSuffix(output, OutAppended)
    /\ IsSuffix(input, InAppended)
    /\ pc \notin {"t_write", "t_write_done"} =>
          Len(OutAppended) = Len(tWritten) + Len(output)
    /\ pc \notin {"m_write", "m_write_done"} =>
          Len(InAppended) = Len(mWritten) + Len(input)

\* a buffer changes by an append at its end during a drain, or by losing
\* its head at the tail of write_all, the head lost being the bytes the sink
\* took last
C17_Step ==
    /\ output' # output =>
          \/ pc = "m_read" /\ IsPrefix(output, output')
          \/ /\ pc = "t_write_done"
             /\ IsSuffix(output', output)
             /\ IsSuffix(SubSeq(output, 1, Len(output) - Len(output')), tWritten)
    /\ input' # input =>
          \/ pc = "t_read" /\ IsPrefix(input, input')
          \/ /\ pc = "m_write_done"
             /\ IsSuffix(input', input)
             /\ IsSuffix(SubSeq(input, 1, Len(input) - Len(input')), mWritten)

\* C17: for the input and the output buffer, the bytes appended are as many
\* as the bytes removed plus the bytes held, the content is a contiguous end
\* of the appended stream, and bytes leave only from the head and only when
\* the destination has taken them
C17_BufferConservation == []C17_Held /\ [][C17_Step]_vars

\* C17 witness: after a partial flush in each direction each buffer holds
\* the second byte of its stream and its sink has the first
W17_BothPartlyFlushed ==
    /\ pc = "poll"
    /\ output = <<2>> /\ tWritten = <<1>>
    /\ input = <<2>> /\ mWritten = <<1>>

\* C18 (as claimed), in its finite-run form: once the Flush Flag is set, in
\* a run where the terminal did not hang up and no OS call failed for an
\* outside reason, the pump leaves the draining state only by the terminal
\* taking the last byte of the output buffer, with success, whatever the
\* terminal sent in the meantime
C18_DrainEndsOk ==
    (flush /\ PumpEnded /\ faults = 0 /\ ~ttyHup) =>
        /\ endedBy = "flushed"
        /\ copyResult = Ok(0)
        /\ tWritten = OutAppended

\* the Flush Flag is false until copy runs; while it is set and the pump
\* runs, the master is deregistered, the output buffer is non-empty and the
\* terminal is asked for writable; the pump ends with success, other than by
\* terminal read-closed, only with the master read-closed and nothing left
\* in the output buffer
C19_FlushState ==
    /\ pc \in {"open_tty", "recorder_start", "forkpty", "copy"} => ~flush
    /\ (flush /\ ~PumpEnded) =>
          /\ masterInt = "none"
          /\ output # << >>
          /\ ttyInt = "RW"
    /\ endedBy \in {"master_closed", "flushed"} =>
          /\ copyResult = Ok(0)
          /\ slaveClosed
          /\ output = << >>

\* the Flush Flag is set only by the read-closed block of the master with a
\* non-empty output buffer, and is never cleared
C19_FlushStep ==
    /\ flush => flush'
    /\ (~flush /\ flush') => (pc = "m_closed" /\ cur.read_closed /\ output # << >>)

\* C19 (as claimed): the Flush Flag starts false, is set only by servicing
\* master read-closed with a non-empty output buffer and is never cleared;
\* while it is set and the pump runs the master is deregistered, the output
\* buffer non-empty and writable asked for on the terminal; a successful end
\* not caused by terminal read-closed has the master read-closed and the
\* output buffer empty
C19_FlushFlag == []C19_FlushState /\ [][C19_FlushStep]_vars

\* C20: when a writable block is entered, in either servicing order of the
\* round, the buffer given to write_all is non-empty, and every iteration of
\* the loop of write_all has bytes left to offer
C20_WriteNonEmpty ==
    /\ (pc = "m_writable" /\ cur.writable) => input # << >>
    /\ (pc = "t_writable" /\ cur.writable) => output # << >>
    /\ pc \in {"m_write", "t_write"} => wbuf # << >>

\* C20 witness: write_all on the master is offering two bytes, in a round
\* that serviced the terminal first, after the terminal took output
W20_MasterWriteUnderWay ==
    /\ pc = "m_write"
    /\ wbuf = <<1, 2>>
    /\ roundFirst = TTY
    /\ tWritten # << >>

====
